---- MODULE Spec2Model ----
(***************************************************************************)
(* Model of My2DGame.cpp: a turn-based terminal game.  The player moves on *)
(* a rows x cols grid, collects stars, avoids randomly moving enemies and  *)
(* wins by reaching the goal.                                              *)
(*                                                                         *)
(* The only point where main() blocks is the getline of line 111.  One     *)
(* step of the model is the return of getline; the next step resolves the  *)
(* line read and runs up to the next getline or to the end of main: when   *)
(* the loop continues it includes the top of the next iteration (rebuild   *)
(* and draw the board, the pre-input win and loss checks, the prompt).     *)
(* Initial placement is modelled draw by draw.                             *)
(***************************************************************************)
EXTENDS Integers, Sequences, FiniteSets

\* ------------------------------------------------------------------ sizes
\* The grid and the entity counts (globals of lines 24-27), scaled down.
rows == 2
cols == 2
numStars == 2
numEnemies == 2
\* Number of completed turns after which no further direction command is read.
MaxTurns == 13
\* Most blanks an input line starts with.
MaxBlanks == 1

\* Literals of the source.
SpawnPeriod == 12
MaxTries == 50
NumDirs == 5

\* Characters that occur in input lines: the eight direction letters, one
\* other letter and the blank.
InputChars == {"w", "W", "a", "A", "s", "S", "d", "D", "q", " "}
\* The input lines: up to MaxBlanks blanks followed by at most one character.
\* (Lines 112-113 read nothing of a line but its first character.)
Lines ==
    {[i \in 1..n |-> " "] \o tail :
        n \in 0..MaxBlanks, tail \in {<<>>} \cup {<<c>> : c \in InputChars}}

VARIABLES
    pc,       \* "goal", "stars", "enemies", "loop": before the first getline;
              \* "input": blocked in getline; "read": getline has returned;
              \* "done": main has returned
    player, goal, stars, enemies, score, turns, alive, board,
    line,     \* the line of the last getline (<<>> before the first)
    gotLine,  \* result of the last getline (FALSE: end of input)
    exitAt,   \* source line of the break that left the loop, 0 while in it
    out,      \* what the last step printed, as a sequence of tags
    tries     \* draws made by the respawn of the last step, 0 without one

vars == <<pc, player, goal, stars, enemies, score, turns, alive, board,
          line, gotLine, exitAt, out, tries>>

\* ---------------------------------------------------------------- helpers
Cells == (0..(rows - 1)) \X (0..(cols - 1))
NoPos == <<-1, -1>>

Range(s) == {s[i] : i \in 1..Len(s)}

\* Pos::operator==
PosEq(a, b) == a[1] = b[1] /\ a[2] = b[2]

\* bool inside(Pos p)
inside(p) == p[1] >= 0 /\ p[1] < rows /\ p[2] >= 0 /\ p[2] < cols

\* makeEmptyBoard(r, c): every cell blank
makeEmptyBoard == [p \in Cells |-> " "]

\* Lines 86-98: the stamps in order goal, stars, enemies, player; a later
\* stamp overwrites an earlier one.
BuildBoard(g, st, en, pl) ==
    [p \in Cells |->
        IF p = pl THEN "@"
        ELSE IF p \in Range(en) THEN "E"
        ELSE IF p \in Range(st) THEN "*"
        ELSE IF p = g THEN "G"
        ELSE " "]

\* find(v.begin(), v.end(), p): index of the first match, 0 for end()
Find(v, p) ==
    IF \E i \in 1..Len(v) : PosEq(v[i], p)
    THEN CHOOSE i \in 1..Len(v) :
            PosEq(v[i], p) /\ \A j \in 1..(i - 1) : ~PosEq(v[j], p)
    ELSE 0

\* v.erase(it)
Erase(v, i) == [j \in 1..(Len(v) - 1) |-> IF j < i THEN v[j] ELSE v[j + 1]]

\* ------------------------------------------------------ initial placement
\* Line 63: one pass of do { goal = draw } while (goal == player)
PlaceGoal ==
    /\ pc = "goal"
    /\ \E g \in Cells :
        /\ goal' = g
        /\ pc' = IF PosEq(g, player) THEN "goal" ELSE "stars"
    /\ UNCHANGED <<player, stars, enemies, score, turns, alive, board,
                   line, gotLine, exitAt, out, tries>>

\* Lines 68-69: is the drawn star pushed
StarAccepted(s, st, pl, g) ==
    /\ ~(PosEq(s, pl) \/ PosEq(s, g))
    /\ Find(st, s) = 0

\* Lines 66-70: one pass of the star loop
PlaceStar ==
    /\ pc = "stars"
    /\ IF Len(stars) < numStars
       THEN \E s \in Cells :
                /\ stars' = IF StarAccepted(s, stars, player, goal)
                            THEN Append(stars, s) ELSE stars
                /\ pc' = "stars"
       ELSE stars' = stars /\ pc' = "enemies"
    /\ UNCHANGED <<player, goal, enemies, score, turns, alive, board,
                   line, gotLine, exitAt, out, tries>>

\* EnemyAccepted without the find of line 76
EnemyAcceptedNoFind(e, en, pl, g) == ~(PosEq(e, pl) \/ PosEq(e, g))

\* Lines 75-76: is the drawn enemy pushed
EnemyAccepted(e, en, pl, g) ==
    /\ ~(PosEq(e, pl) \/ PosEq(e, g))
    /\ Find(en, e) = 0

\* Lines 73-77: one pass of the enemy loop
PlaceEnemy ==
    /\ pc = "enemies"
    /\ IF Len(enemies) < numEnemies
       THEN \E e \in Cells :
                /\ enemies' = IF EnemyAccepted(e, enemies, player, goal)
                              THEN Append(enemies, e) ELSE enemies
                /\ pc' = "enemies"
       ELSE enemies' = enemies /\ pc' = "loop"
    /\ UNCHANGED <<player, goal, stars, score, turns, alive, board,
                   line, gotLine, exitAt, out, tries>>

\* ------------------------------------------------------------ top of loop
\* Line 105: the pre-input scan for an enemy on the player
Bumped(en, pl) == \E i \in 1..Len(en) : PosEq(pl, en[i])

\* Line 104: the pre-input test for the player on the goal
OnGoal(pl, g) == PosEq(pl, g)

\* Lines 84-109 for the iteration that starts in the primed state: rebuild
\* and draw the board, pre-input win check, pre-input loss check, prompt.
\* printed: what the step has printed so far.
LoopTop(printed) ==
    /\ board' = BuildBoard(goal', stars', enemies', player')
    /\ IF OnGoal(player', goal')
       THEN /\ pc' = "done" /\ exitAt' = 104 /\ alive' = alive
            /\ out' = printed \o <<"board", "win", "final">>
       ELSE IF Bumped(enemies', player')
       THEN /\ pc' = "done" /\ exitAt' = 106 /\ alive' = FALSE
            /\ out' = printed \o <<"board", "bumped", "final">>
       ELSE /\ pc' = "input" /\ exitAt' = 0 /\ alive' = alive
            /\ out' = printed \o <<"board", "prompt">>

\* Lines 79-84: score, turns, alive, and into the loop for the first time
EnterLoop ==
    /\ pc = "loop"
    /\ score' = 0 /\ turns' = 0
    /\ UNCHANGED <<player, goal, stars, enemies, line, gotLine, tries>>
    /\ LoopTop(<<>>)

\* ------------------------------------------------------------------ input
\* IsDirection when the else branch of line 119 does not continue
IsDirectionAlways(cmd) == TRUE

\* Lines 115-118: is cmd one of the eight direction letters
IsDirection(cmd) == cmd \in {"w", "W", "s", "S", "a", "A", "d", "D"}

\* Lines 114-118: np for a direction letter
Candidate(p, cmd) ==
    IF cmd = "w" \/ cmd = "W" THEN <<p[1] - 1, p[2]>>
    ELSE IF cmd = "s" \/ cmd = "S" THEN <<p[1] + 1, p[2]>>
    ELSE IF cmd = "a" \/ cmd = "A" THEN <<p[1], p[2] - 1>>
    ELSE IF cmd = "d" \/ cmd = "D" THEN <<p[1], p[2] + 1>>
    ELSE p

\* Cmd reading the first character that is no blank (cin >> cmd)
CmdSkipBlanks(l) ==
    IF \E i \in 1..Len(l) : l[i] # " "
    THEN l[CHOOSE i \in 1..Len(l) :
               l[i] # " " /\ \A j \in 1..(i - 1) : l[j] = " "]
    ELSE l[1]

\* Line 113: char cmd = line[0]
Cmd(l) == l[1]

\* Line 111: getline returns, with a line or at the end of the input.  No
\* direction command is read once MaxTurns turns are completed.
ReadLine ==
    /\ pc = "input"
    /\ \/ /\ gotLine' = FALSE /\ line' = <<>>
       \/ /\ gotLine' = TRUE
          /\ \E l \in Lines :
                /\ (l # <<>> /\ IsDirection(Cmd(l))) => turns < MaxTurns
                /\ line' = l
    /\ pc' = "read"
    /\ out' = <<>>
    /\ tries' = 0
    /\ UNCHANGED <<player, goal, stars, enemies, score, turns, alive, board,
                   exitAt>>

\* EndOfInput leaving main without line 166
EndOfInputNoSummary ==
    /\ pc = "read"
    /\ ~gotLine
    /\ pc' = "done" /\ exitAt' = 111
    /\ out' = <<>>
    /\ UNCHANGED <<player, goal, stars, enemies, score, turns, alive, board,
                   line, gotLine, tries>>

\* Line 111: if (!getline(cin, line)) break; then line 166
EndOfInput ==
    /\ pc = "read"
    /\ ~gotLine
    /\ pc' = "done" /\ exitAt' = 111
    /\ out' = <<"final">>
    /\ UNCHANGED <<player, goal, stars, enemies, score, turns, alive, board,
                   line, gotLine, tries>>

\* Line 112: if (line.empty()) continue;
EmptyLine ==
    /\ pc = "read"
    /\ gotLine
    /\ line = <<>>
    /\ UNCHANGED <<player, goal, stars, enemies, score, turns, line, gotLine,
                   tries>>
    /\ LoopTop(<<>>)

\* Line 119: the first character is no direction letter
InvalidKey ==
    /\ pc = "read"
    /\ gotLine
    /\ line # <<>>
    /\ ~IsDirection(Cmd(line))
    /\ UNCHANGED <<player, goal, stars, enemies, score, turns, line, gotLine,
                   tries>>
    /\ LoopTop(<<"invalid">>)

\* MovePlayer coming back in on the opposite side of the grid
MovePlayerWraps(p, cmd) ==
    <<(Candidate(p, cmd)[1] + rows) % rows,
      (Candidate(p, cmd)[2] + cols) % cols>>

\* MovePlayer without the bounds test of line 121
MovePlayerUnchecked(p, cmd) == Candidate(p, cmd)

\* Line 121: if (inside(np)) player = np
MovePlayer(p, cmd) ==
    IF inside(Candidate(p, cmd)) THEN Candidate(p, cmd) ELSE p

\* Collect without the erase of line 124
CollectKeeps(st, p) == st

\* Lines 123-124: the stars after the pickup at p
Collect(st, p) == IF Find(st, p) # 0 THEN Erase(st, Find(st, p)) ELSE st

\* Lines 123-124: the score after the pickup at p
Scored(sc, st, p) == IF Find(st, p) # 0 THEN sc + 1 ELSE sc

\* ReachedGoal when the test of line 127 is missing
ReachedGoalNever(pl, g) == FALSE

\* ReachedGoal comparing the rows only
ReachedGoalSameRow(pl, g) == pl[1] = g[1]

\* Line 127: the test for the player on the goal after the move
ReachedGoal(pl, g) == PosEq(pl, g)

\* MoveEnemy without the inside test of line 142
MoveEnemyNoInside(e, dir, g) ==
    LET ne == IF dir = 0 THEN <<e[1] - 1, e[2]>>
              ELSE IF dir = 1 THEN <<e[1] + 1, e[2]>>
              ELSE IF dir = 2 THEN <<e[1], e[2] - 1>>
              ELSE IF dir = 3 THEN <<e[1], e[2] + 1>>
              ELSE e
    IN  IF ~PosEq(ne, g) THEN ne ELSE e

\* MoveEnemy without the goal test of line 142
MoveEnemyAnywhere(e, dir, g) ==
    LET ne == IF dir = 0 THEN <<e[1] - 1, e[2]>>
              ELSE IF dir = 1 THEN <<e[1] + 1, e[2]>>
              ELSE IF dir = 2 THEN <<e[1], e[2] - 1>>
              ELSE IF dir = 3 THEN <<e[1], e[2] + 1>>
              ELSE e
    IN  IF inside(ne) THEN ne ELSE e

\* Lines 137-142: one enemy's step for the drawn dir
MoveEnemy(e, dir, g) ==
    LET ne == IF dir = 0 THEN <<e[1] - 1, e[2]>>
              ELSE IF dir = 1 THEN <<e[1] + 1, e[2]>>
              ELSE IF dir = 2 THEN <<e[1], e[2] - 1>>
              ELSE IF dir = 3 THEN <<e[1], e[2] + 1>>
              ELSE e
    IN  IF inside(ne) /\ ~PosEq(ne, g) THEN ne ELSE e

\* Caught looking at the first enemy only
CaughtFirstOnly(en, pl) == Len(en) > 0 /\ PosEq(en[1], pl)

\* Caught with the comparison of line 146 inverted
CaughtInverted(en, pl) == \E i \in 1..Len(en) : ~PosEq(en[i], pl)

\* Line 146: the scan for an enemy on the player after the enemies moved
Caught(en, pl) == \E i \in 1..Len(en) : PosEq(en[i], pl)

\* SpawnDue without the stars.size() < numStars test
SpawnDueAnyCount(tn, st) == tn % SpawnPeriod = 0

\* SpawnDue without the turns % 12 test
SpawnDueEveryTurn(tn, st) == Len(st) < numStars

\* Line 150: is a respawn attempted this turn
SpawnDue(tn, st) == tn % SpawnPeriod = 0 /\ Len(st) < numStars

\* Lines 152-153: the pairs <<s, tries>> the do-while can end with when it
\* is entered with tries = t
RECURSIVE SpawnFrom(_, _, _)
SpawnFrom(t, pl, g) ==
    LET again == {s \in Cells :
                     (PosEq(s, pl) \/ PosEq(s, g)) /\ t + 1 < MaxTries}
    IN  {<<s, t + 1>> : s \in Cells \ again}
        \cup (IF again # {} THEN SpawnFrom(t + 1, pl, g) ELSE {})

\* Respawn without the test of line 154
RespawnUnchecked(st, s, pl, g) == Append(st, s)

\* Line 154: the stars after the respawn ended with s
Respawn(st, s, pl, g) ==
    IF ~(PosEq(s, pl) \/ PosEq(s, g)) THEN Append(st, s) ELSE st

\* NextTurn when line 163 is missing
NextTurnStuck(tn) == tn

\* Line 163: turns++
NextTurn(tn) == tn + 1

\* Lines 113-163: the first character is a direction letter
PlayerTurn ==
    /\ pc = "read"
    /\ gotLine
    /\ line # <<>>
    /\ IsDirection(Cmd(line))
    /\ player' = MovePlayer(player, Cmd(line))
    /\ score' = Scored(score, stars, player')
    /\ UNCHANGED <<goal, line, gotLine>>
    /\ IF ReachedGoal(player', goal)
       THEN \* lines 127-131, 166
            /\ stars' = Collect(stars, player')
            /\ UNCHANGED <<enemies, turns, alive, board, tries>>
            /\ pc' = "done" /\ exitAt' = 130
            /\ out' = <<"board", "win", "final">>
       ELSE \E dirs \in [1..Len(enemies) -> 0..(NumDirs - 1)] :
            /\ enemies' = [i \in 1..Len(enemies) |->
                              MoveEnemy(enemies[i], dirs[i], goal)]
            /\ IF Caught(enemies', player')
               THEN \* lines 146-147, 166
                    /\ stars' = Collect(stars, player')
                    /\ UNCHANGED <<turns, board, tries>>
                    /\ alive' = FALSE
                    /\ pc' = "done" /\ exitAt' = 147
                    /\ out' = <<"board", "caught", "final">>
               ELSE \* lines 150-163, then the top of the next iteration
                    /\ IF SpawnDue(turns, Collect(stars, player'))
                       THEN \E d \in SpawnFrom(0, player', goal) :
                                /\ stars' = Respawn(Collect(stars, player'),
                                                    d[1], player', goal)
                                /\ tries' = d[2]
                       ELSE /\ stars' = Collect(stars, player')
                            /\ tries' = 0
                    /\ turns' = NextTurn(turns)
                    /\ LoopTop(IF stars' = <<>>
                               THEN <<"allcollected">> ELSE <<>>)

Init ==
    /\ pc = "goal"
    /\ player = <<rows \div 2, cols \div 2>>
    /\ goal = NoPos
    /\ stars = <<>>
    /\ enemies = <<>>
    /\ score = 0
    /\ turns = 0
    /\ alive = TRUE
    /\ board = makeEmptyBoard
    /\ line = <<>>
    /\ gotLine = TRUE
    /\ exitAt = 0
    /\ out = <<>>
    /\ tries = 0

Next ==
    \/ PlaceGoal
    \/ PlaceStar
    \/ PlaceEnemy
    \/ EnterLoop
    \/ ReadLine
    \/ EndOfInput
    \/ EmptyLine
    \/ InvalidKey
    \/ PlayerTurn

Spec == Init /\ [][Next]_vars

\* ----------------------------------------------------------------- claims
Start == <<rows \div 2, cols \div 2>>
DirLetters == {"w", "W", "a", "A", "s", "S", "d", "D"}
InLoop == pc \in {"input", "read", "done"}
Won == exitAt \in {104, 130}
Lost == exitAt \in {106, 147}

\* The number of entries of v at cell c
Count(v, c) == Cardinality({i \in 1..Len(v) : v[i] = c})

\* The cell one step from p in the direction of letter ch
Towards(p, ch) ==
    CASE ch \in {"w", "W"} -> <<p[1] - 1, p[2]>>
      [] ch \in {"s", "S"} -> <<p[1] + 1, p[2]>>
      [] ch \in {"a", "A"} -> <<p[1], p[2] - 1>>
      [] ch \in {"d", "D"} -> <<p[1], p[2] + 1>>

\* getline has returned a line whose first character is a direction letter
\* (resp. an empty line or a line whose first character is none)
GotDirection == pc = "read" /\ gotLine /\ line # <<>> /\ line[1] \in DirLetters
GotOther == pc = "read" /\ gotLine /\ (line = <<>> \/ line[1] \notin DirLetters)

TypeOK ==
    /\ pc \in {"goal", "stars", "enemies", "loop", "input", "read", "done"}
    /\ player \in Cells
    /\ goal \in Cells \cup {NoPos}
    /\ stars \in Seq(Cells) /\ enemies \in Seq(Cells)
    /\ Len(enemies) <= numEnemies
    /\ turns \in 0..MaxTurns
    /\ score \in 0..MaxTurns
    /\ alive \in BOOLEAN /\ gotLine \in BOOLEAN
    /\ line \in Lines
    /\ exitAt \in {0, 104, 106, 111, 130, 147}
    /\ board \in [Cells -> {" ", "G", "*", "E", "@"}]
    /\ tries \in 0..MaxTries

\* C1: a direction command W/A/S/D (either case) puts the player on the
\* cell one step in that direction when that cell is inside the grid and
\* leaves the player where it is when it is not; the player is inside the
\* grid in every reachable state.
C1_PlayerMove ==
    /\ [](player \in Cells)
    /\ [][GotDirection =>
            player' = IF Towards(player, line[1]) \in Cells
                      THEN Towards(player, line[1]) ELSE player]_vars

\* The first command moved the player up from the start cell.
C1_Witness ==
    /\ pc = "input" /\ turns = 1
    /\ line[1] \in {"w", "W"}
    /\ player = <<Start[1] - 1, Start[2]>>

\* C2: in every reachable state no hostile is on the goal cell.
C2_NoHostileOnGoal == \A i \in 1..Len(enemies) : enemies[i] # goal

\* After a completed turn a hostile stands next to the goal.
C2_Witness ==
    /\ pc = "input" /\ turns >= 1
    /\ \E i \in 1..Len(enemies) :
          \/ enemies[i] = <<goal[1], goal[2] + 1>>
          \/ enemies[i] = <<goal[1], goal[2] - 1>>
          \/ enemies[i] = <<goal[1] + 1, goal[2]>>
          \/ enemies[i] = <<goal[1] - 1, goal[2]>>

\* C3: once the loop is entered, the game is Won (a win break was taken
\* and the win message printed) exactly when the player is on the goal at
\* the last win check point: the player does not move between a win check
\* and the next getline or the end of main.
C3_WonIffOnGoal ==
    InLoop => /\ Won <=> player = goal
              /\ Won <=> (pc = "done" /\ "win" \in Range(out))

\* The post-move check declared the win.
C3_Witness == exitAt = 130 /\ player = goal /\ "win" \in Range(out)

\* C4: once the loop is entered, the game is Lost (alive is false, a loss
\* break was taken and a loss message printed) exactly when some hostile
\* is on the player at the last loss check point.
C4_LostIffOnHostile ==
    InLoop => /\ Lost <=> (\E i \in 1..Len(enemies) : enemies[i] = player)
              /\ Lost <=> ~alive
              /\ Lost <=> (pc = "done" /\ (\E m \in {"caught", "bumped"} :
                                                m \in Range(out)))

\* The check after the hostiles' moves declared the loss.
C4_Witness ==
    /\ exitAt = 147 /\ ~alive
    /\ \E i \in 1..Len(enemies) : enemies[i] = player

\* The original C5: when initial placement is complete, the goal, the
\* player, the collectibles and the hostiles are on pairwise distinct
\* cells.
C5_AllDistinct ==
    pc = "loop" =>
        LET all == <<goal, player>> \o stars \o enemies
        IN  \A i, j \in 1..Len(all) : i # j => all[i] # all[j]

\* C5 (amended): when initial placement is complete, the goal differs from
\* the player, there are numStars collectibles on pairwise distinct cells
\* that are neither the player's nor the goal's, and numEnemies hostiles
\* on pairwise distinct cells that are neither the player's nor the
\* goal's.  (A hostile may be on a collectible's cell.)
C5_PlacementDistinct ==
    pc = "loop" =>
        /\ goal \in Cells /\ goal # player
        /\ Len(stars) = numStars /\ Len(enemies) = numEnemies
        /\ \A i, j \in 1..Len(stars) : i # j => stars[i] # stars[j]
        /\ \A i \in 1..Len(stars) : stars[i] \in Cells \ {player, goal}
        /\ \A i, j \in 1..Len(enemies) : i # j => enemies[i] # enemies[j]
        /\ \A i \in 1..Len(enemies) : enemies[i] \in Cells \ {player, goal}

\* Placement is complete with a hostile on a collectible's cell.
C5_Witness ==
    /\ pc = "loop"
    /\ Len(stars) = numStars /\ Len(enemies) = numEnemies
    /\ \E i \in 1..Len(enemies) : \E j \in 1..Len(stars) :
          enemies[i] = stars[j]

C7_WinEndsTurn ==
    [][(pc = "read" /\ player' = goal) =>
        /\ pc' = "done" /\ exitAt' = 130
        /\ "win" \in Range(out')
        /\ enemies' = enemies
        /\ turns' = turns
        /\ \A c \in Cells : Count(stars', c) <= Count(stars, c)]_vars

\* The player won after at least one completed turn.
C7_Witness ==
    /\ pc = "done" /\ exitAt = 130 /\ turns >= 1
    /\ player = goal /\ line[1] \in DirLetters

\* C8: an empty line, or a line whose first character is no direction
\* letter, changes none of player, goal, collectibles, hostiles, score,
\* turn counter and alive flag; the game stays in the loop and prompts
\* again.
C8_NoEffect ==
    [][GotOther =>
        /\ UNCHANGED <<player, goal, stars, enemies, score, turns, alive>>
        /\ pc' = "input" /\ exitAt' = 0
        /\ "prompt" \in Range(out')]_vars

\* After one completed turn an invalid key was answered with the notice.
C8_Witness ==
    /\ pc = "input" /\ turns = 1
    /\ line = <<"q">>
    /\ "invalid" \in Range(out)

\* The first character of line l that is no blank ("" when there is none)
FirstNonBlank(l) ==
    IF \E i \in 1..Len(l) : l[i] # " "
    THEN l[CHOOSE i \in 1..Len(l) :
               l[i] # " " /\ \A j \in 1..(i - 1) : l[j] = " "]
    ELSE ""

\* The original C9: a line whose first non-blank character is a direction
\* letter moves the player as that letter does.
C9_FirstNonBlank ==
    [][(pc = "read" /\ gotLine /\ FirstNonBlank(line) \in DirLetters) =>
        player' = IF Towards(player, FirstNonBlank(line)) \in Cells
                  THEN Towards(player, FirstNonBlank(line)) ELSE player]_vars

\* C9 (amended): the command of a non-empty line is its first character:
\* a direction letter (either case) moves the player as in C1; any other
\* first character, a blank included whatever follows it, gets the
\* invalid-key notice and moves nothing and counts no turn.
C9_FirstCharacter ==
    [][(pc = "read" /\ gotLine /\ line # <<>>) =>
        IF line[1] \in DirLetters
        THEN player' = IF Towards(player, line[1]) \in Cells
                       THEN Towards(player, line[1]) ELSE player
        ELSE /\ player' = player /\ turns' = turns
             /\ "invalid" \in Range(out')]_vars

\* A blank followed by w was read as the first line: the player is still
\* on the start cell and the notice was shown.
C9_Witness ==
    /\ pc = "input" /\ turns = 0
    /\ line = <<" ", "w">>
    /\ player = Start
    /\ "invalid" \in Range(out)

\* C10: in every reachable state no two entries of the collectible list
\* are on the same cell, and no entry is on the goal cell.
C10_StarsUnique ==
    /\ \A i, j \in 1..Len(stars) : i # j => stars[i] # stars[j]
    /\ \A i \in 1..Len(stars) : stars[i] # goal

\* C11: in a turn in which a hostile is on the player's cell right after
\* the player's move (before the hostiles move) or after the hostiles'
\* moves, the game ends as Lost in that turn.
C11_ContactEndsGame ==
    [][(GotDirection /\
        \/ \E i \in 1..Len(enemies) : enemies[i] = player'
        \/ \E i \in 1..Len(enemies') : enemies'[i] = player')
       => (pc' = "done" /\ exitAt' \in {106, 147})]_vars

\* The original C12: once the collectible list is empty it stays empty,
\* and every completed turn shows the "all collected" message.
C12_StaysEmpty ==
    [][(pc = "read" /\ stars = <<>>) =>
        /\ stars' = <<>>
        /\ turns' = turns + 1 => "allcollected" \in Range(out')]_vars

\* C12 (amended): a move onto the sole remaining collectible in a turn
\* whose index is no multiple of 12 leaves the list empty; an empty list
\* stays empty through every step but a completed turn whose index is a
\* multiple of 12, whose respawn adds one collectible unless all its
\* draws fail; a completed turn shows the "all collected" message exactly
\* when it ends with the list empty.
C12_EmptyUntilRespawn ==
    [][pc = "read" =>
        /\ (GotDirection /\ Len(stars) = 1 /\ stars[1] = player'
               /\ turns % SpawnPeriod # 0) => stars' = <<>>
        /\ (stars = <<>> /\ ~(turns' = turns + 1 /\ turns % SpawnPeriod = 0))
              => stars' = <<>>
        /\ (stars = <<>> /\ turns' = turns + 1 /\ turns % SpawnPeriod = 0)
              => /\ Len(stars') <= 1
                 /\ tries' < MaxTries => Len(stars') = 1
        /\ turns' = turns + 1 =>
              ("allcollected" \in Range(out') <=> stars' = <<>>)]_vars

\* Every collectible placed at the start is picked up, the list is empty
\* and the message was shown with the last completed turn.
C12_Witness ==
    /\ pc = "input" /\ stars = <<>>
    /\ score >= numStars
    /\ "allcollected" \in Range(out)

\* C13: at the end of the input the loop is left in that step with no win
\* or loss message and with player, collectibles, hostiles, score and turn
\* counter unchanged, and only the final summary is printed; the final
\* summary is printed once, as the last output, by the step that ends
\* main (Won, Lost or end of input) and by no other step, and no step
\* follows it.
C13_EndOfInput ==
    /\ [][(pc = "read" /\ ~gotLine) =>
            /\ pc' = "done" /\ exitAt' = 111
            /\ out' = <<"final">>
            /\ UNCHANGED <<player, goal, stars, enemies, score, turns,
                           alive>>]_vars
    /\ [](pc = "done" <=> Count(out, "final") = 1)
    /\ [](pc # "done" => Count(out, "final") = 0)
    /\ [](pc = "done" => out[Len(out)] = "final")
    /\ [][pc # "done"]_vars

\* The input ended after two completed turns.
C13_Witness ==
    /\ pc = "done" /\ exitAt = 111 /\ ~gotLine
    /\ turns = 2
    /\ out = <<"final">>

\* The number of entries the pickup of this step removes (0 or 1)
Picked == IF GotDirection /\ Count(stars, player') > 0 THEN 1 ELSE 0

\* C14: the list never has more than numStars entries; once placement is
\* over, a step leaves the list longer than the pickup left it only by one
\* entry, only in a completed turn of a direction command whose turn index
\* is a multiple of 12, and only if the pickup left fewer than numStars
\* entries.
C14_GrowsOnlyInRespawn ==
    /\ [](Len(stars) <= numStars)
    /\ [][(pc \in {"loop", "input", "read"}) =>
           (/\ Len(stars') >= Len(stars) - Picked
            /\ Len(stars') <= Len(stars) - Picked + 1
            /\ Len(stars') > Len(stars) - Picked =>
                  /\ GotDirection
                  /\ turns' = turns + 1
                  /\ turns % SpawnPeriod = 0
                  /\ Len(stars) - Picked < numStars)]_vars

\* The respawn of turn index 12 has filled the list up to numStars.
C14_Witness ==
    /\ pc = "input" /\ turns = SpawnPeriod + 1
    /\ tries >= 1
    /\ Len(stars) = numStars
    /\ score >= 1

\* This step runs the respawn of lines 150-155.
Respawning ==
    /\ pc = "read" /\ GotDirection
    /\ turns' = turns + 1
    /\ turns % SpawnPeriod = 0
    /\ Len(stars) - Picked < numStars

\* This step appended a collectible to what the pickup left.
Added == Len(stars') = Len(stars) - Picked + 1

\* C15: a respawn makes between 1 and 50 draws and no other step makes
\* any; a collectible it adds is the new last entry, on a cell of the grid
\* that is neither the player's position after the move nor the goal; it
\* stops before the 50th draw only by adding one; and when it adds none
\* (all 50 draws failed) the turn is completed as usual: the counter is
\* incremented and the next command is asked for.
C15_RespawnDraws ==
    /\ [](tries <= MaxTries)
    /\ [][Respawning =>
            (/\ tries' \in 1..MaxTries
             /\ Added => stars'[Len(stars')] \in Cells \ {player', goal}
             /\ tries' < MaxTries => Added
             /\ ~Added =>
                   /\ tries' = MaxTries
                   /\ Len(stars') = Len(stars) - Picked
                   /\ pc' = "input" /\ alive'
                   /\ "prompt" \in Range(out'))]_vars
    /\ [][~Respawning => tries' = 0]_vars

\* All 50 draws of the respawn of turn index 0 failed and the game goes on.
C15_Witness ==
    /\ pc = "input" /\ turns = 1
    /\ tries = MaxTries
    /\ Len(stars) < numStars
    /\ score = 1

\* The row and column offsets of the drawn directions 0..4 (4 is staying)
Offsets == <<(<<-1, 0>>), <<1, 0>>, <<0, -1>>, <<0, 1>>, <<0, 0>>>>

\* The cell an enemy at e has chosen with the draw dir
Chosen(e, dir) == <<e[1] + Offsets[dir + 1][1], e[2] + Offsets[dir + 1][2]>>

\* The number of single steps between cells p and q
Distance(p, q) ==
    (IF p[1] > q[1] THEN p[1] - q[1] ELSE q[1] - p[1])
    + (IF p[2] > q[2] THEN p[2] - q[2] ELSE q[2] - p[2])

\* C16: every hostile is inside the grid in every state; once placement is
\* over there are numEnemies of them for good; in one step of the loop each
\* hostile stays or moves one cell up, down, left or right; and for every
\* hostile and every draw, the hostile goes to the chosen cell if that cell
\* is inside the grid and is not the goal, and stays where it is otherwise.
C16_HostileSteps ==
    /\ [](\A i \in 1..Len(enemies) : enemies[i] \in Cells)
    /\ [](pc \in {"loop", "input", "read", "done"}
             => Len(enemies) = numEnemies)
    /\ [][(pc \in {"loop", "input", "read"}) =>
            (/\ Len(enemies') = Len(enemies)
             /\ \A i \in 1..Len(enemies) :
                    Distance(enemies[i], enemies'[i]) <= 1)]_vars
    /\ [](pc \in {"input", "read"} =>
             \A i \in 1..Len(enemies) : \A dir \in 0..(NumDirs - 1) :
                 MoveEnemy(enemies[i], dir, goal)
                   = IF Chosen(enemies[i], dir) \in Cells \ {goal}
                     THEN Chosen(enemies[i], dir) ELSE enemies[i])

\* After two turns the hostiles, placed on different cells, share a cell.
C16_Witness ==
    /\ pc = "input" /\ turns = 2
    /\ Len(enemies) = numEnemies
    /\ \A i \in 1..Len(enemies) : enemies[i] = enemies[1]

\* getline has returned a direction command whose candidate cell is outside
\* the grid
GotOutside == GotDirection /\ Towards(player, line[1]) \notin Cells

\* C17: in the step of a direction command whose candidate cell is outside
\* the grid the player stays put and the input is not reported as invalid;
\* the score goes up by one exactly if a collectible is on the player's
\* cell, and one such collectible is removed; every hostile makes one of
\* the steps a draw allows; the game is lost in that step exactly if a
\* hostile is then on the player's cell; otherwise the turn counter goes up
\* by one and the next command is asked for.
C17_OutsideStillATurn ==
    [][GotOutside =>
        (/\ player' = player
         /\ "invalid" \notin Range(out')
         /\ score' = score + (IF Count(stars, player) > 0 THEN 1 ELSE 0)
         /\ Count(stars', player) <= Count(stars, player)
         /\ Count(stars, player) > 0 =>
               Count(stars', player) = Count(stars, player) - 1
         /\ \A i \in 1..Len(enemies) : \E dir \in 0..(NumDirs - 1) :
                enemies'[i] = IF Chosen(enemies[i], dir) \in Cells \ {goal}
                              THEN Chosen(enemies[i], dir) ELSE enemies[i]
         /\ IF \E i \in 1..Len(enemies') : enemies'[i] = player
            THEN pc' = "done" /\ exitAt' = 147 /\ turns' = turns
                 /\ "caught" \in Range(out')
            ELSE pc' = "input" /\ turns' = turns + 1)]_vars

\* The first command that was a direction asked for a cell outside the grid:
\* the player is still at the start, the turn is counted, and the hostiles,
\* placed on different cells, have both moved onto one cell.
C17_Witness ==
    /\ pc = "input" /\ turns = 1
    /\ player = Start
    /\ line # <<>> /\ line[1] \in DirLetters
    /\ Towards(Start, line[1]) \notin Cells
    /\ Len(enemies) = numEnemies
    /\ enemies[1] = enemies[2]

\* C18: the turn counter is 0 until the first command is read and never
\* decreases; a step adds exactly 1 to it if it processed a direction
\* command and left the game running, and leaves it as it is otherwise
\* (the step that ends in Won or in Lost, an empty or invalid line, the end
\* of the input, placement).
C18_TurnCounter ==
    /\ [](pc \in {"goal", "stars", "enemies", "loop"} => turns = 0)
    /\ [][turns' >= turns]_vars
    /\ [][turns' = IF GotDirection /\ pc' # "done"
                   THEN turns + 1 ELSE turns]_vars
    /\ [][(pc' = "done" \/ GotOther \/ (pc = "read" /\ ~gotLine))
            => turns' = turns]_vars

\* The game was lost in the third turn, after two completed turns.
C18_Witness ==
    /\ pc = "done" /\ exitAt = 147
    /\ turns = 2
    /\ line # <<>> /\ line[1] \in DirLetters

\* C19: whenever the top of the loop has run (a command is awaited or has
\* just been read) the player is neither on the goal nor on a hostile's
\* cell; the pre-input checks of lines 104 and 105 never end the game and
\* the message of line 105 is never printed; every win is the one of line
\* 130 and every loss the one of line 147.
C19_PreInputChecksIdle ==
    /\ [](pc \in {"loop", "input", "read"} =>
            /\ player # goal
            /\ \A i \in 1..Len(enemies) : enemies[i] # player)
    /\ [](exitAt \notin {104, 106})
    /\ []("bumped" \notin Range(out))
    /\ []("win" \in Range(out) => exitAt = 130)
    /\ [](~alive => exitAt = 147)
    /\ []("caught" \in Range(out) <=> exitAt = 147)

\* A turn has been completed and left a hostile next to the player.
C19_Witness ==
    /\ pc = "input" /\ turns >= 1
    /\ player # Start
    /\ \E i \in 1..Len(enemies) : Distance(enemies[i], player) = 1
    /\ Distance(player, goal) = 1

\* C20: whenever the last step has drawn a board, the board drawn is the
\* grid built from the positions of that moment: goal, collectibles still
\* in the list, hostiles, and the player last.
C20_DrawnBoardCurrent ==
    "board" \in Range(out) => board = BuildBoard(goal, stars, enemies, player)
====
